---- MODULE Spec2Model ----
(***************************************************************************)
(* A model of mongoose-api-helpers: the ApiFeatures query translator       *)
(* (filter, search, sort, limitFields, paginate, populate) acting on one   *)
(* Mongoose query handle, and the pure getPagination formatter.            *)
(*                                                                         *)
(* Strings are TLA+ strings read character by character (Len, SubSeq), so  *)
(* that parseInt, JSON escaping, the operator-rewriting regular expression *)
(* and String.split are computed the way the JavaScript computes them.     *)
(***************************************************************************)
EXTENDS Integers, Sequences, FiniteSets, TLC

VARIABLES
    queryString,  \* this.queryString: the parameter mapping (read-only input)
    query,        \* this.query: the Mongoose query handle
    total,        \* this.total
    pc,           \* "idle", or "await_count" while filter() is suspended at its await
    pending,      \* the filter object handed to countDocuments while pc = "await_count"
    calls,        \* per method invoked so far: its latest argument and outcome
    info          \* the PaginationInfo last returned by getPagination, and its inputs

vars == <<queryString, query, total, pc, pending, calls, info>>

(***************************************************************************)
(* Bounds of the model.                                                    *)
(***************************************************************************)
MaxPopulate == 3      \* populate() is not called once the handle holds this many directives
MaxTotal == 12        \* getPagination: total ranges over 0..MaxTotal
MaxLimit == 4         \* getPagination: limit ranges over 1..MaxLimit
MaxPage == 5          \* getPagination: page ranges over 1..MaxPage

(***************************************************************************)
(* JavaScript values.  A number that may be missing (null, undefined, NaN) *)
(* is <<>> or <<n>>; every other value is a record tagged by its kind.     *)
(***************************************************************************)
None == <<>>

Some(n) == <<n>>

Undefined == [kind |-> "undefined"]

Str(s) == [kind |-> "str", str |-> s]

\* An object literal: its own properties in insertion order.
Obj(entries) == [kind |-> "obj", obj |-> entries]

Entry(k, v) == [key |-> k, val |-> v]

\* obj[k]: the value of the last entry named k, undefined when there is none.
Get(entries, k) ==
    LET hits == {i \in 1..Len(entries) : entries[i].key = k}
    IN IF hits = {} THEN Undefined
       ELSE entries[CHOOSE i \in hits : \A j \in hits : j <= i].val

Has(entries, k) == \E i \in 1..Len(entries) : entries[i].key = k

Range(seq) == {seq[i] : i \in 1..Len(seq)}

\* JavaScript truthiness of a mapping value: undefined and "" are falsy.
Truthy(v) == v.kind # "undefined" /\ (v.kind = "str" => v.str # "")

(***************************************************************************)
(* Characters.                                                             *)
(***************************************************************************)
Char(s, i) == SubSeq(s, i, i)

Chars(s) == {Char(s, i) : i \in 1..Len(s)}

Digits == "0123456789"

Lower == "abcdefghijklmnopqrstuvwxyz"

Upper == "ABCDEFGHIJKLMNOPQRSTUVWXYZ"

DigitChars == Chars(Digits)

IsDigit(c) == c \in DigitChars

\* A regular expression's word characters, \w: [A-Za-z0-9_].
WordChars == Chars(Lower) \cup Chars(Upper) \cup Chars(Digits) \cup {"_"}

IsWordChar(c) == c \in WordChars

\* The position of c in s (0 when it does not occur).
IndexOf(s, c) == IF c \in Chars(s) THEN CHOOSE i \in 1..Len(s) : Char(s, i) = c ELSE 0

DigitVal(c) == IndexOf(Digits, c) - 1

\* String.prototype.toLowerCase on one character: what the "i" flag folds.
UpperChars == Chars(Upper)

ToLower(c) == IF c \in UpperChars THEN Char(Lower, IndexOf(Upper, c)) ELSE c

(***************************************************************************)
(* parseInt(s, 10): leading white space, an optional sign, then the        *)
(* longest run of decimal digits; NaN (None) when that run is empty.       *)
(***************************************************************************)
IsSpace(c) == c \in {" ", "\t", "\n", "\r", "\f"}

RECURSIVE SkipSpaces(_, _)
SkipSpaces(s, i) ==
    IF i <= Len(s) /\ IsSpace(Char(s, i)) THEN SkipSpaces(s, i + 1) ELSE i

RECURSIVE DigitRun(_, _, _)
\* <<the value of the digits of s from position i on, after acc; the position after them>>
DigitRun(s, i, acc) ==
    IF i <= Len(s) /\ IsDigit(Char(s, i))
    THEN DigitRun(s, i + 1, 10 * acc + DigitVal(Char(s, i)))
    ELSE <<acc, i>>

parseInt(v) ==
    IF v.kind # "str" THEN None   \* parseInt(undefined) reads "undefined": NaN
    ELSE LET s == v.str
             i == SkipSpaces(s, 1)
             neg == i <= Len(s) /\ Char(s, i) = "-"
             j == IF i <= Len(s) /\ Char(s, i) \in {"-", "+"} THEN i + 1 ELSE i
             run == DigitRun(s, j, 0)
         IN IF run[2] = j THEN None
            ELSE Some(IF neg THEN 0 - run[1] ELSE run[1])

\* A variant of OrDefault in which only NaN takes the default (n ?? d in
\* place of n || d).
OrDefaultNaNOnly(n, d) == IF n = None THEN d ELSE n[1]

\* n || d on a number: NaN and 0 are falsy.
OrDefault(n, d) == IF n = None \/ n = Some(0) THEN d ELSE n[1]

(***************************************************************************)
(* String.prototype.split(",") and Array.prototype.join(" ").              *)
(***************************************************************************)
RECURSIVE SplitFrom(_, _, _)
\* The pieces of s from position i on, cur being the piece read so far.
SplitFrom(s, i, cur) ==
    IF i > Len(s) THEN <<cur>>
    ELSE IF Char(s, i) = "," THEN <<cur>> \o SplitFrom(s, i + 1, "")
    ELSE SplitFrom(s, i + 1, cur \o Char(s, i))

Split(s) == SplitFrom(s, 1, "")

RECURSIVE Join(_)
Join(parts) ==
    IF Len(parts) = 0 THEN ""
    ELSE IF Len(parts) = 1 THEN parts[1]
    ELSE parts[1] \o " " \o Join(Tail(parts))

(***************************************************************************)
(* JSON.stringify / JSON.parse.  The JSON text of an object is kept as the *)
(* object's tree with every key and every string value in its serialised   *)
(* (escaped) form: the punctuation between them ({ } : , and the quotes)   *)
(* holds no word character, so a regular expression anchored on \b sees    *)
(* each key and each string exactly as if it stood alone between quotes.   *)
(***************************************************************************)
EscapeChar(c) ==
    CASE c = "\"" -> "\\\""
      [] c = "\\" -> "\\\\"
      [] c = "\n" -> "\\n"
      [] c = "\t" -> "\\t"
      [] c = "\r" -> "\\r"
      [] c = "\f" -> "\\f"
      [] OTHER    -> c

RECURSIVE EscapeFrom(_, _)
EscapeFrom(s, i) ==
    IF i > Len(s) THEN "" ELSE EscapeChar(Char(s, i)) \o EscapeFrom(s, i + 1)

\* The characters JSON.stringify writes between the quotes for the string s.
Escape(s) == EscapeFrom(s, 1)

RECURSIVE MapEntries(_, _)
\* The object tree with F applied to every key and every string value.
MapEntries(F(_), entries) ==
    [i \in 1..Len(entries) |->
        Entry(F(entries[i].key),
              IF entries[i].val.kind = "obj"
              THEN Obj(MapEntries(F, entries[i].val.obj))
              ELSE Str(F(entries[i].val.str)))]

JSONstringify(entries) == MapEntries(Escape, entries)

\* What each escape letter after a backslash decodes to, in JSON.parse.
\* (\b and \uXXXX are never written by Escape and never produced by the
\* rewriting below, which only inserts "$".)
EscapeLetters == {"\"", "\\", "/", "n", "t", "r", "f"}

UnescapeLetter(c) ==
    CASE c = "n" -> "\n"
      [] c = "t" -> "\t"
      [] c = "r" -> "\r"
      [] c = "f" -> "\f"
      [] OTHER   -> c

RECURSIVE WellEscapedFrom(_, _)
\* JSON.parse accepts the string text t from position i on.
WellEscapedFrom(t, i) ==
    IF i > Len(t) THEN TRUE
    ELSE IF Char(t, i) = "\\"
         THEN i + 1 <= Len(t) /\ Char(t, i + 1) \in EscapeLetters
              /\ WellEscapedFrom(t, i + 2)
    ELSE Char(t, i) # "\"" /\ WellEscapedFrom(t, i + 1)

RECURSIVE UnescapeFrom(_, _)
UnescapeFrom(t, i) ==
    IF i > Len(t) THEN ""
    ELSE IF Char(t, i) = "\\" /\ i + 1 <= Len(t)
         THEN UnescapeLetter(Char(t, i + 1)) \o UnescapeFrom(t, i + 2)
    ELSE Char(t, i) \o UnescapeFrom(t, i + 1)

Unescape(t) == UnescapeFrom(t, 1)

RECURSIVE WellFormed(_)
\* JSON.parse does not throw a SyntaxError on the text.
WellFormed(entries) ==
    \A i \in 1..Len(entries) :
        /\ WellEscapedFrom(entries[i].key, 1)
        /\ IF entries[i].val.kind = "obj"
           THEN WellFormed(entries[i].val.obj)
           ELSE WellEscapedFrom(entries[i].val.str, 1)

RECURSIVE Dedup(_)
\* An object built from entries read left to right: a repeated key keeps its
\* first position and takes its last value.
Dedup(entries) ==
    LET firsts == {i \in 1..Len(entries) :
                      \A j \in 1..(i - 1) : entries[j].key # entries[i].key}
        F[i \in 0..Len(entries)] ==
            IF i = 0 THEN <<>>
            ELSE IF i \in firsts
                 THEN LET v == Get(entries, entries[i].key)
                      IN Append(F[i - 1],
                                Entry(entries[i].key,
                                      IF v.kind = "obj" THEN Obj(Dedup(v.obj)) ELSE v))
            ELSE F[i - 1]
    IN F[Len(entries)]

\* JSON.parse of a well-formed text.
JSONparse(entries) == Dedup(MapEntries(Unescape, entries))

(***************************************************************************)
(* queryStr.replace(/\b(gte|gt|lte|lt|in|nin|eq|ne|regex|options)\b/g,     *)
(*                  (match) => `$${match}`)                                *)
(***************************************************************************)
\* The alternatives, in the order the regular expression tries them.
OperatorVocabulary ==
    <<"gte", "gt", "lte", "lt", "in", "nin", "eq", "ne", "regex", "options">>

IsWordAt(t, i) == i >= 1 /\ i <= Len(t) /\ IsWordChar(Char(t, i))

\* \b holds between positions i-1 and i of t.
WordBoundary(t, i) == IsWordAt(t, i - 1) # IsWordAt(t, i)

\* The alternative the expression matches at position i of t ("" when none).
MatchAt(t, i) ==
    LET fits(k) == LET w == OperatorVocabulary[k]
                   IN /\ i + Len(w) - 1 <= Len(t)
                      /\ SubSeq(t, i, i + Len(w) - 1) = w
                      /\ WordBoundary(t, i)
                      /\ WordBoundary(t, i + Len(w))
        ks == {k \in 1..Len(OperatorVocabulary) : fits(k)}
    IN IF ks = {} THEN ""
       ELSE OperatorVocabulary[CHOOSE k \in ks : \A j \in ks : k <= j]

RECURSIVE ReplaceFrom(_, _)
ReplaceFrom(t, i) ==
    IF i > Len(t) THEN ""
    ELSE LET m == MatchAt(t, i)
         IN IF m # "" THEN "$" \o m \o ReplaceFrom(t, i + Len(m))
            ELSE Char(t, i) \o ReplaceFrom(t, i + 1)

\* The replace, on the text of one key or one string value.
ReplaceOperators(t) == ReplaceFrom(t, 1)

(***************************************************************************)
(* new Date(s): the ISO calendar-date form YYYY-MM-DD gives a date value   *)
(* (written by its text); a string of no date form gives Invalid Date.     *)
(* The constructor never throws.                                           *)
(***************************************************************************)
InvalidDate == [kind |-> "invalid_date"]

IsIsoDate(s) ==
    /\ Len(s) = 10
    /\ \A i \in {1, 2, 3, 4, 6, 7, 9, 10} : IsDigit(Char(s, i))
    /\ Char(s, 5) = "-" /\ Char(s, 8) = "-"
    /\ LET mm == 10 * DigitVal(Char(s, 6)) + DigitVal(Char(s, 7))
           dd == 10 * DigitVal(Char(s, 9)) + DigitVal(Char(s, 10))
       IN mm \in 1..12 /\ dd \in 1..31

NewDate(v) ==
    IF v.kind = "str" /\ IsIsoDate(v.str) THEN [kind |-> "date", iso |-> v.str]
    ELSE InvalidDate

(***************************************************************************)
(* new RegExp(source, flags) and RegExp.prototype.test, for sources made   *)
(* of word characters (literals), "." (any character but a line            *)
(* terminator) and "(" (which opens a group: with no ")" in the source the *)
(* constructor throws SyntaxError: Unterminated group).                    *)
(***************************************************************************)
RegExpThrows(source) == "(" \in Chars(source)

NewRegExp(source, flags) == [kind |-> "regex", source |-> source, flags |-> flags]

RegexCharMatches(p, c, flags) ==
    IF p = "." THEN c \notin {"\n", "\r"}
    ELSE IF "i" \in Chars(flags) THEN ToLower(p) = ToLower(c)
    ELSE p = c

\* The expression matches somewhere in s.
RegexTest(re, s) ==
    \E i \in 1..(Len(s) + 1) :
        /\ i + Len(re.source) - 1 <= Len(s)
        /\ \A j \in 1..Len(re.source) :
              RegexCharMatches(Char(re.source, j), Char(s, i + j - 1), re.flags)

(***************************************************************************)
(* The collection behind the handle's model, and the query engine's        *)
(* matching of a filter object against a document (for countDocuments and  *)
(* for executing the handle).  The documents are those the repository's    *)
(* test creates.                                                           *)
(***************************************************************************)
Users ==
    {[name |-> "Alice", email |-> "alice@example.com"],
     [name |-> "Bob", email |-> "bob@example.com"]}

\* The printable ASCII characters in code order, from the space (code 32) on
\* (the grave accent, code 96, is left out: no string of the model holds it).
Ascii ==
    " !\"#$%&'()*+,-./0123456789:;<=>?@ABCDEFGHIJKLMNOPQRSTUVWXYZ[\\]^_abcdefghijklmnopqrstuvwxyz{|}~"

\* The character's rank in code order (a control character ranks below them all).
Code(c) == IndexOf(Ascii, c)

RECURSIVE StrLessFrom(_, _, _)
StrLessFrom(a, b, i) ==
    IF i > Len(b) THEN FALSE
    ELSE IF i > Len(a) THEN TRUE
    ELSE IF Char(a, i) = Char(b, i) THEN StrLessFrom(a, b, i + 1)
    ELSE Code(Char(a, i)) < Code(Char(b, i))

\* a sorts before b in the engine's binary string order.
StrLess(a, b) == StrLessFrom(a, b, 1)

\* A filter object as a mapping from its keys to their values.
ToConditions(entries) ==
    [k \in {entries[i].key : i \in 1..Len(entries)} |-> Get(entries, k)]

\* The document satisfies  field: { op: operand }.
OperatorHolds(doc, field, ops, op, operand) ==
    LET present == field \in DOMAIN doc
        x == doc[field]
    IN IF operand.kind # "str" THEN FALSE   \* a date never compares with a string field
       ELSE LET v == operand.str
            IN CASE op = "$eq"  -> present /\ x = v
                 [] op = "$ne"  -> ~(present /\ x = v)
                 [] op = "$gt"  -> present /\ StrLess(v, x)
                 [] op = "$gte" -> present /\ ~StrLess(x, v)
                 [] op = "$lt"  -> present /\ StrLess(x, v)
                 [] op = "$lte" -> present /\ ~StrLess(v, x)
                 [] op = "$in"  -> present /\ x = v
                 [] op = "$nin" -> ~(present /\ x = v)
                 [] op = "$regex" ->
                        LET o == Get(ops, "$options")
                        IN present /\ RegexTest(NewRegExp(v, IF o.kind = "str" THEN o.str ELSE ""), x)
                 [] op = "$options" -> TRUE
                 [] OTHER -> FALSE

\* The document satisfies the condition  key: value  of a filter object.
ConditionHolds(doc, key, value) ==
    CASE value.kind = "str" -> key \in DOMAIN doc /\ doc[key] = value.str
      [] value.kind = "array" ->     \* $or: [ { field: RegExp }, ... ]
            \E i \in 1..Len(value.items) :
                LET alt == value.items[i].obj[1]
                IN alt.key \in DOMAIN doc /\ RegexTest(alt.val, doc[alt.key])
      [] value.kind = "obj" ->
            /\ value.obj # <<>>
            /\ \A i \in 1..Len(value.obj) :
                  OperatorHolds(doc, key, value.obj, value.obj[i].key, value.obj[i].val)
      [] OTHER -> FALSE

Matches(doc, conditions) ==
    \A k \in DOMAIN conditions : ConditionHolds(doc, k, conditions[k])

\* The engine refuses a filter with an unknown top-level operator.
EngineRejects(conditions) ==
    \E k \in DOMAIN conditions : Len(k) > 0 /\ Char(k, 1) = "$" /\ k # "$or"

\* Model.countDocuments(filters), when it resolves.
countDocuments(filters) ==
    Cardinality({doc \in Users : Matches(doc, ToConditions(filters))})

(***************************************************************************)
(* The Mongoose query handle: only what ApiFeatures calls on it.           *)
(***************************************************************************)
\* Model.find(): no condition, no option, no populate directive.
NewQuery ==
    [conditions |-> ToConditions(<<>>), sort |-> None, select |-> None,
     skip |-> None, limit |-> None, populate |-> <<>>]

\* A variant of find in which the filter replaces the handle's conditions.
findReplacing(q, filters) == [q EXCEPT !.conditions = ToConditions(filters)]

\* query.find(filters): the filter's conditions are merged into the handle's.
find(q, filters) ==
    LET c == ToConditions(filters)
    IN [q EXCEPT !.conditions =
            [k \in DOMAIN q.conditions \cup DOMAIN c |->
                IF k \in DOMAIN c THEN c[k] ELSE q.conditions[k]]]

\* The documents the handle selects when executed (skip/limit/sort aside).
Selected(q) == {doc \in Users : Matches(doc, q.conditions)}

(***************************************************************************)
(* ApiFeatures: what each method computes from the parameter mapping.      *)
(***************************************************************************)
excludedFields == {"page", "sort", "limit", "fields", "search", "populate"}

\* queryObj: a copy of the mapping with the excluded fields deleted.
QueryObj(qs) == SelectSeq(qs, LAMBDA e : e.key \notin excludedFields)

\* queryStr after the replace.
QueryStr(qs) == MapEntries(ReplaceOperators, JSONstringify(QueryObj(qs)))

\* "Handle date filtering": filters.date is replaced by the dates built from
\* its $gte and $lte.
HandleDate(filters) ==
    LET date == Get(filters, "date")
        sub(op) == IF date.kind = "obj" THEN Get(date.obj, op) ELSE Undefined
        dateFilter ==
            (IF Truthy(sub("$gte")) THEN <<Entry("$gte", NewDate(sub("$gte")))>> ELSE <<>>)
            \o (IF Truthy(sub("$lte")) THEN <<Entry("$lte", NewDate(sub("$lte")))>> ELSE <<>>)
    IN IF Truthy(date)
       THEN [i \in 1..Len(filters) |->
                IF filters[i].key = "date" THEN Entry("date", Obj(dateFilter))
                ELSE filters[i]]
       ELSE filters

\* filter() up to its call of find(): whether JSON.parse throws, and if not
\* the filter object handed to find() and to countDocuments().
BuildFilters(qs) ==
    LET queryStr == QueryStr(qs)
    IN IF WellFormed(queryStr)
       THEN [throws |-> FALSE, filters |-> HandleDate(JSONparse(queryStr))]
       ELSE [throws |-> TRUE, filters |-> <<>>]

ParseThrows(qs) == BuildFilters(qs).throws

Filters(qs) == BuildFilters(qs).filters

\* A variant of CountRequested that tests for the key:
\* if ("page" in this.queryString).
CountRequestedWhenPresent(qs) == Has(qs, "page")

\* "Count total documents if pagination requested": if (this.queryString.page).
CountRequested(qs) == Truthy(Get(qs, "page"))

\* search(): the condition tested, and the filter object handed to find().
SearchRequested(qs) == Truthy(Get(qs, "search"))

SearchQuery(qs, searchFields) ==
    LET searchRegex == NewRegExp(Get(qs, "search").str, "i")
    IN <<Entry("$or",
               [kind |-> "array",
                items |-> [i \in 1..Len(searchFields) |->
                              Obj(<<Entry(searchFields[i], searchRegex)>>)]])>>

DefaultSearchFields == <<"name", "email", "title">>

\* sort(): the argument of query.sort().
SortBy(qs) ==
    IF Truthy(Get(qs, "sort")) THEN Join(Split(Get(qs, "sort").str)) ELSE "-createdAt"

\* limitFields(): the argument of query.select().
SelectFields(qs) ==
    IF Truthy(Get(qs, "fields")) THEN Join(Split(Get(qs, "fields").str)) ELSE "-__v"

DefaultPage == 1

DefaultLimit == 100

\* paginate(): page, limit and skip.
PaginatePage(qs) == OrDefault(parseInt(Get(qs, "page")), DefaultPage)

PaginateLimit(qs) == OrDefault(parseInt(Get(qs, "limit")), DefaultLimit)

PaginateSkip(qs) == (PaginatePage(qs) - 1) * PaginateLimit(qs)

\* A variant of PopulateFields in which populateOptions are added to the
\* parameter's fields instead of being overridden by them.
PopulateFieldsMerged(qs, populateOptions) ==
    IF Truthy(Get(qs, "populate")) THEN Split(Get(qs, "populate").str) \o populateOptions
    ELSE populateOptions

\* populate(): the fields populated, in order.
PopulateFields(qs, populateOptions) ==
    IF Truthy(Get(qs, "populate")) THEN Split(Get(qs, "populate").str)
    ELSE populateOptions

(***************************************************************************)
(* The handle after each method, as a function of the handle before it.    *)
(* A method that throws leaves the handle as it was.                       *)
(***************************************************************************)
AfterFilter(q, qs) ==
    LET built == BuildFilters(qs)
    IN IF built.throws THEN q ELSE find(q, built.filters)

SearchThrows(qs) == SearchRequested(qs) /\ RegExpThrows(Get(qs, "search").str)

AfterSearch(q, qs, searchFields) ==
    IF SearchRequested(qs) /\ ~SearchThrows(qs)
    THEN find(q, SearchQuery(qs, searchFields))
    ELSE q

\* query.sort(s) and query.select(s) are given the same string on every call,
\* the mapping being read-only, so the option is the string last given.
AfterSort(q, qs) == [q EXCEPT !.sort = Some(SortBy(qs))]

AfterLimitFields(q, qs) == [q EXCEPT !.select = Some(SelectFields(qs))]

AfterPaginate(q, qs) ==
    [q EXCEPT !.skip = Some(PaginateSkip(qs)), !.limit = Some(PaginateLimit(qs))]

\* query.populate(field), once per field: the handle's populate is the list
\* of the directives applied to it, in order.
AfterPopulate(q, qs, populateOptions) ==
    [q EXCEPT !.populate = q.populate \o PopulateFields(qs, populateOptions)]

(***************************************************************************)
(* getPagination.                                                          *)
(***************************************************************************)
\* Math.ceil(a / b) for an integer a and a positive integer b.
MathCeilDiv(a, b) == IF a % b = 0 THEN a \div b ELSE (a \div b) + 1

\* A variant of getPagination whose hasNext is page <= pages.
getPaginationOffByOne(t, limit, page) ==
    LET pages == MathCeilDiv(t, limit)
        hasNext == page <= pages
        hasPrevious == page > 1
    IN [total |-> t,
        pages |-> pages,
        currentPage |-> page,
        limit |-> limit,
        hasNext |-> hasNext,
        hasPrevious |-> hasPrevious,
        nextPage |-> IF hasNext THEN Some(page + 1) ELSE None,
        previousPage |-> IF hasPrevious THEN Some(page - 1) ELSE None]

getPagination(t, limit, page) ==
    LET pages == MathCeilDiv(t, limit)
        hasNext == page < pages
        hasPrevious == page > 1
    IN [total |-> t,
        pages |-> pages,
        currentPage |-> page,
        limit |-> limit,
        hasNext |-> hasNext,
        hasPrevious |-> hasPrevious,
        nextPage |-> IF hasNext THEN Some(page + 1) ELSE None,
        previousPage |-> IF hasPrevious THEN Some(page - 1) ELSE None]

(***************************************************************************)
(* The inputs: the parameter mappings a request may carry, and the         *)
(* arguments the caller may pass to search() and populate().               *)
(***************************************************************************)
Param(k, s) == Entry(k, Str(s))

PageValues == {"", "0", "1", "2", "-1", "abc", "3x"}

LimitValues == {"", "0", "10", "-5", "ten"}

PaginationMappings ==
    {<<Param("page", p)>> : p \in PageValues}
    \cup {<<Param("limit", l)>> : l \in LimitValues}
    \cup {<<Param("page", p), Param("limit", l)>> : p \in {"0", "2", "-1"}, l \in {"0", "10", "-5"}}

FilterMappings ==
    {<<Param("name", "Alice")>>,
     <<Param("name", "Alice"), Param("page", "1")>>,
     <<Param("name", "Bob"), Param("email", "bob@example.com"), Param("page", "2"), Param("limit", "1")>>,
     <<Param("name", "in")>>,
     <<Param("name", "check-in"), Param("page", "1")>>,
     <<Param("name", "a\nin")>>,
     <<Param("name", "a\nin"), Param("page", "1")>>,
     <<Param("name", "a\nb")>>,
     <<Entry("name", Obj(<<Param("gte", "B")>>)), Param("page", "1")>>,
     <<Entry("name", Obj(<<Param("ne", "Bob"), Param("lt", "C")>>)), Param("page", "1")>>,
     <<Entry("price", Obj(<<Param("gte", "10"), Param("lte", "20")>>))>>,
     <<Entry("name", Obj(<<Param("regex", "lic"), Param("options", "i")>>)), Param("page", "1")>>,
     <<Entry("date", Obj(<<Param("gte", "2024-01-01"), Param("lte", "2024-12-31")>>))>>,
     <<Entry("date", Obj(<<Param("gte", "soon")>>))>>,
     <<Entry("date", Obj(<<Param("lte", "soon")>>)), Param("page", "1")>>,
     <<Param("date", "2024-01-01")>>}

SearchMappings ==
    {<<Param("search", t)>> : t \in {"", "bob", "BOB", "b.b", "(", "zed"}}
    \cup {<<Param("search", "ali"), Param("name", "Alice")>>,
          <<Param("search", "bob"), Param("page", "1")>>,
          <<Param("search", "a(b"), Param("name", "Alice"), Param("page", "1")>>}

PopulateMappings ==
    {<<Param("populate", v)>> : v \in {"", "category", "category,reviews", ","}}

OtherMappings ==
    {<<>>,
     <<Param("sort", "name,-email"), Param("fields", "name,email")>>,
     <<Param("sort", ""), Param("fields", "")>>,
     <<Param("name", "Alice"), Param("search", "ali"), Param("sort", "-name"), Param("fields", "name"),
       Param("page", "2"), Param("limit", "1"), Param("populate", "category,reviews")>>}

Mappings ==
    PaginationMappings \cup FilterMappings \cup SearchMappings
    \cup PopulateMappings \cup OtherMappings

\* The searchFields a caller passes (the first is the parameter's default).
SearchFieldsArgs == {DefaultSearchFields, <<"name">>, <<"nickname">>}

\* The populateOptions a caller passes (the first is the parameter's default).
PopulateOptionsArgs == {<<>>, <<"author", "tags">>}

Methods == {"filter", "search", "sort", "limitFields", "paginate", "populate"}

(***************************************************************************)
(* The state machine.                                                      *)
(***************************************************************************)
\* The method op has now been invoked with argument arg, with this outcome:
\* "returned", "pending" (suspended at an await), or the error it threw.
Invoke(op, arg, outcome) ==
    calls' = [m \in DOMAIN calls \cup {op} |->
                 IF m = op THEN [arg |-> arg, outcome |-> outcome] ELSE calls[m]]

NoCall == [m \in {} |-> <<>>]

Invoked(op) == op \in DOMAIN calls

\* The most recent invocation of op returned normally.
Returned(op) == Invoked(op) /\ calls[op].outcome = "returned"

\* new ApiFeatures(Model.find(), queryString)
Init ==
    /\ queryString \in Mappings
    /\ query = NewQuery
    /\ total = None
    /\ pc = "idle"
    /\ pending = <<>>
    /\ calls = NoCall
    /\ info = <<>>

\* filter(), up to its return or to its await of countDocuments.  The other
\* methods are synchronous and may be called while filter() is suspended; a
\* second filter() is started only once the first has settled.
filter ==
    LET built == BuildFilters(queryString)
    IN /\ pc = "idle"
       /\ IF built.throws
          THEN /\ Invoke("filter", <<>>, "SyntaxError")
               /\ UNCHANGED <<query, pc, pending>>
          ELSE /\ query' = find(query, built.filters)
               /\ IF CountRequested(queryString)
                  THEN /\ pc' = "await_count"
                       /\ pending' = built.filters
                       /\ Invoke("filter", <<>>, "pending")
                  ELSE /\ Invoke("filter", <<>>, "returned")
                       /\ UNCHANGED <<pc, pending>>
       /\ UNCHANGED <<queryString, total, info>>

\* countDocuments resolves: filter() records the count and returns.
countResolves ==
    /\ pc = "await_count"
    /\ ~EngineRejects(ToConditions(pending))
    /\ total' = Some(countDocuments(pending))
    /\ pc' = "idle"
    /\ pending' = <<>>
    /\ Invoke("filter", <<>>, "returned")
    /\ UNCHANGED <<queryString, query, info>>

\* countDocuments rejects (a cast or a database failure): filter() rejects.
countRejects ==
    /\ pc = "await_count"
    /\ pc' = "idle"
    /\ pending' = <<>>
    /\ Invoke("filter", <<>>, "rejected")
    /\ UNCHANGED <<queryString, query, total, info>>

search(searchFields) ==
    /\ query' = AfterSearch(query, queryString, searchFields)
    /\ Invoke("search", searchFields,
              IF SearchThrows(queryString) THEN "SyntaxError" ELSE "returned")
    /\ UNCHANGED <<queryString, total, pc, pending, info>>

sort ==
    /\ query' = AfterSort(query, queryString)
    /\ Invoke("sort", <<>>, "returned")
    /\ UNCHANGED <<queryString, total, pc, pending, info>>

limitFields ==
    /\ query' = AfterLimitFields(query, queryString)
    /\ Invoke("limitFields", <<>>, "returned")
    /\ UNCHANGED <<queryString, total, pc, pending, info>>

paginate ==
    /\ query' = AfterPaginate(query, queryString)
    /\ Invoke("paginate", <<>>, "returned")
    /\ UNCHANGED <<queryString, total, pc, pending, info>>

populate(populateOptions) ==
    /\ Len(query.populate) < MaxPopulate
    /\ query' = AfterPopulate(query, queryString, populateOptions)
    /\ Invoke("populate", populateOptions, "returned")
    /\ UNCHANGED <<queryString, total, pc, pending, info>>

Next ==
    \/ filter
    \/ countResolves
    \/ countRejects
    \/ \E searchFields \in SearchFieldsArgs : search(searchFields)
    \/ sort
    \/ limitFields
    \/ paginate
    \/ \E populateOptions \in PopulateOptionsArgs : populate(populateOptions)

Spec == Init /\ [][Next]_vars

(***************************************************************************)
(* The chain in which each method is invoked at most once, in any order.   *)
(***************************************************************************)
NextOnce ==
    \/ ~Invoked("filter") /\ filter
    \/ countResolves
    \/ countRejects
    \/ ~Invoked("search") /\ \E searchFields \in SearchFieldsArgs : search(searchFields)
    \/ ~Invoked("sort") /\ sort
    \/ ~Invoked("limitFields") /\ limitFields
    \/ ~Invoked("paginate") /\ paginate
    \/ ~Invoked("populate") /\ \E populateOptions \in PopulateOptionsArgs : populate(populateOptions)

SpecOnce == Init /\ [][NextOnce]_vars

(***************************************************************************)
(* getPagination on its own: a pure function of its three arguments.       *)
(***************************************************************************)
InitPagination ==
    /\ queryString = <<>>
    /\ query = NewQuery
    /\ total = None
    /\ pc = "idle"
    /\ pending = <<>>
    /\ calls = NoCall
    /\ info = <<>>

callGetPagination(t, limit, page) ==
    /\ info' = <<[total |-> t, limit |-> limit, page |-> page,
                  result |-> getPagination(t, limit, page)]>>
    /\ UNCHANGED <<queryString, query, total, pc, pending, calls>>

\* The calls the repository's test and documentation make.
PaginationExamples == {<<50, 10, 3>>, <<10, 10, 1>>, <<100, 10, 1>>}

NextPagination ==
    \/ \E t \in 0..MaxTotal, limit \in 1..MaxLimit, page \in 1..MaxPage :
          callGetPagination(t, limit, page)
    \/ \E e \in PaginationExamples : callGetPagination(e[1], e[2], e[3])

SpecPagination == InitPagination /\ [][NextPagination]_vars

(***************************************************************************)
(* Properties.                                                             *)
(***************************************************************************)

\* C1: for total >= 0, limit >= 1, page >= 1, getPagination returns total,
\* limit and currentPage = page unchanged, pages = ceil(total/limit) (the
\* least p with p * limit >= total), hasNext iff page < pages, hasPrevious
\* iff page > 1, nextPage = page + 1 when hasNext and null otherwise,
\* previousPage = page - 1 when hasPrevious and null otherwise.
C1_PaginationInfo ==
    info # <<>> =>
        LET i == info[1]
            r == i.result
        IN /\ r.total = i.total /\ r.limit = i.limit /\ r.currentPage = i.page
           /\ r.pages * i.limit >= i.total
           /\ (r.pages - 1) * i.limit < i.total
           /\ r.hasNext = (i.page < r.pages)
           /\ r.hasPrevious = (i.page > 1)
           /\ r.nextPage = (IF r.hasNext THEN Some(i.page + 1) ELSE None)
           /\ r.previousPage = (IF r.hasPrevious THEN Some(i.page - 1) ELSE None)

\* A page beyond the last one: hasNext is false and nextPage is null, while
\* there is a previous page.
C1_Witness ==
    /\ info # <<>>
    /\ info[1].page > info[1].result.pages
    /\ info[1].result.pages >= 2
    /\ info[1].result.nextPage = None
    /\ info[1].result.previousPage = Some(info[1].page - 1)

\* The predicate a mapping stands for: its non-reserved keys, a plain value
\* unchanged, an operator sub-key op turned into $op with its value unchanged.
ClaimedPredicate(qs) ==
    LET obj == QueryObj(qs)
    IN ToConditions(
          [i \in 1..Len(obj) |->
              IF obj[i].val.kind = "obj"
              THEN Entry(obj[i].key,
                         Obj([j \in 1..Len(obj[i].val.obj) |->
                                 Entry("$" \o obj[i].val.obj[j].key, obj[i].val.obj[j].val)]))
              ELSE obj[i]])

\* C2: after filter() completes (here: on a mapping with no date field, and
\* before any search), the handle's predicate is the mapping without its
\* reserved keys: k = v with v unchanged, k $op v with v unchanged, no more.
C2_FilterPredicate ==
    (Returned("filter") /\ ~Invoked("search") /\ ~Has(queryString, "date"))
        => query.conditions = ClaimedPredicate(queryString)

\* The mapping has a page parameter.
HasPage(qs) == Has(qs, "page")

\* The mapping has a page parameter that is not the empty string.
HasNonEmptyPage(qs) == Has(qs, "page") /\ Get(qs, "page") # Str("")

\* The number of documents matching the predicate filter() builds.
FilterCount(qs) == Cardinality({doc \in Users : Matches(doc, ToConditions(Filters(qs)))})

\* A step in which a call of filter() completes normally.
FilterCompletes ==
    /\ Returned("filter")'
    /\ ~Invoked("filter") \/ calls["filter"] # calls'["filter"]

\* C3 as stated: total is null after construction; a filter() that completes
\* on a mapping with a page parameter sets total to the number of documents
\* matching its own predicate; nothing else changes total.
C3_TotalAsStated ==
    /\ total = None
    /\ [][/\ total' # total => FilterCompletes /\ HasPage(queryString)
          /\ (FilterCompletes /\ HasPage(queryString))
                => total' = Some(FilterCount(queryString))]_vars

\* C3 amended: the same, for a page parameter that is present and not empty.
C3_Total ==
    /\ total = None
    /\ [][/\ total' # total => FilterCompletes /\ HasNonEmptyPage(queryString)
          /\ (FilterCompletes /\ HasNonEmptyPage(queryString))
                => total' = Some(FilterCount(queryString))]_vars

\* filter() has completed with a count of both documents although the
\* handle, narrowed by a search and paginated, selects one.
C3_Witness ==
    /\ Returned("filter")
    /\ HasNonEmptyPage(queryString)
    /\ total = Some(2)
    /\ Returned("search") /\ Returned("paginate")
    /\ Cardinality(Selected(query)) = 1

\* C4: once paginate() has been called, total holds the number of documents
\* the handle finds before pagination.
C4_PaginateSetsTotal ==
    Returned("paginate") => total = Some(Cardinality(Selected(query)))

\* The page and limit of the claim: the integer parsed, or the default when
\* the parameter is missing or not numeric.
StatedNumber(v, default) == IF parseInt(v) = None THEN default ELSE parseInt(v)[1]

\* The same, the default also standing in for a parameter that parses to 0.
AmendedNumber(v, default) ==
    IF parseInt(v) = None \/ parseInt(v) = Some(0) THEN default ELSE parseInt(v)[1]

\* C5 as stated: paginate() raises no error and applies limit = L and
\* skip = (P - 1) * L, P and L being the parsed page and limit, or 1 and 100
\* when missing or non-numeric.
C5_PaginateAsStated ==
    Invoked("paginate") =>
        LET P == StatedNumber(Get(queryString, "page"), 1)
            L == StatedNumber(Get(queryString, "limit"), 100)
        IN /\ calls["paginate"].outcome = "returned"
           /\ query.limit = Some(L)
           /\ query.skip = Some((P - 1) * L)

\* C5 amended: P is 1 also when page parses to 0, L is 100 also when limit
\* parses to 0.
C5_Paginate ==
    Invoked("paginate") =>
        LET P == AmendedNumber(Get(queryString, "page"), 1)
            L == AmendedNumber(Get(queryString, "limit"), 100)
        IN /\ calls["paginate"].outcome = "returned"
           /\ query.limit = Some(L)
           /\ query.skip = Some((P - 1) * L)

\* paginate() has run on page = "0": the first page is applied.
C5_Witness ==
    /\ Returned("paginate")
    /\ Get(queryString, "page") = Str("0")
    /\ Get(queryString, "limit") = Str("10")
    /\ query.skip = Some(0) /\ query.limit = Some(10)

\* The date field carries a gte or lte value that is no date.
HasUnparseableDate(qs) ==
    LET date == Get(qs, "date")
    IN /\ date.kind = "obj"
       /\ \E op \in {"gte", "lte"} :
             LET v == Get(date.obj, op)
             IN v.kind = "str" /\ v.str # "" /\ ~IsIsoDate(v.str)

\* C6: when filter() meets a parse failure (the rewritten mapping does not
\* parse, or a date's gte/lte is no date), the call fails and applies
\* nothing: the handle's predicate set and total are as before the call.
C6_ParseFailure ==
    [][(/\ ParseThrows(queryString) \/ HasUnparseableDate(queryString)
        /\ ~Invoked("filter") /\ Invoked("filter")')
          => /\ calls'["filter"].outcome \notin {"returned", "pending"}
             /\ query'.conditions = query.conditions
             /\ total' = total]_vars

\* The handle a chain of the six methods yields when run in the order
\* filter, search, sort, limitFields, paginate, populate.
ChainResult(qs, searchFields, populateOptions) ==
    AfterPopulate(
        AfterPaginate(
            AfterLimitFields(
                AfterSort(
                    AfterSearch(AfterFilter(NewQuery, qs), qs, searchFields),
                    qs),
                qs),
            qs),
        qs, populateOptions)

\* C7: one invocation each of the six methods, in any order, yields the
\* handle the order filter, search, sort, limitFields, paginate, populate
\* yields: the same predicates, sort, projection, skip, limit and directives.
C7_OrderIndependent ==
    (DOMAIN calls = Methods /\ pc = "idle")
        => query = ChainResult(queryString, calls["search"].arg, calls["populate"].arg)

\* All six have run on a mapping with a filter key and a search term: the
\* handle holds both predicates and every option.
C7_Witness ==
    /\ DOMAIN calls = Methods /\ pc = "idle"
    /\ {"name", "$or"} \subseteq DOMAIN query.conditions
    /\ query.skip = Some(1) /\ query.limit = Some(1)
    /\ query.sort = Some("-name") /\ query.select = Some("name")
    /\ query.populate = <<"category", "reviews">>

\* A step in which populate() is called.
PopulateStep ==
    \/ ~Invoked("populate") /\ Invoked("populate")'
    \/ Invoked("populate") /\ calls'["populate"] # calls["populate"]
    \/ query'.populate # query.populate

\* C8 as stated: populate(defaults) appends one directive per comma-separated
\* entry of the populate parameter when it is present, and one per entry of
\* defaults when it is absent.
C8_PopulateAsStated ==
    [][PopulateStep =>
          query'.populate =
              query.populate \o
                  (IF Has(queryString, "populate")
                   THEN Split(Get(queryString, "populate").str)
                   ELSE calls'["populate"].arg)]_vars

\* C8 amended: the parameter's entries when it is present and not empty, the
\* defaults when it is absent or empty.
C8_Populate ==
    [][PopulateStep =>
          query'.populate =
              query.populate \o
                  (IF Has(queryString, "populate") /\ Get(queryString, "populate") # Str("")
                   THEN Split(Get(queryString, "populate").str)
                   ELSE calls'["populate"].arg)]_vars

\* Two calls on populate = "category,reviews", the latter with defaults
\* author, tags: two directives each, none for the defaults.
C8_Witness ==
    /\ Returned("populate")
    /\ calls["populate"].arg = <<"author", "tags">>
    /\ query.populate = <<"category", "reviews", "category", "reviews">>

\* s contains term, letter case aside.
ContainsIgnoreCase(s, term) ==
    \E i \in 1..(Len(s) + 1) :
        /\ i + Len(term) - 1 <= Len(s)
        /\ \A j \in 1..Len(term) : ToLower(Char(s, i + j - 1)) = ToLower(Char(term, j))

\* C9: search(fields) leaves the handle alone when the search parameter is
\* absent or empty; otherwise it adds one constraint, beside those already
\* there, that a document meets exactly when one of the fields it has
\* contains the search term, letter case aside.
C9_Search ==
    [][(/\ ~Invoked("search") /\ Invoked("search")'
        /\ ~("$or" \in DOMAIN query.conditions))
          => IF ~Has(queryString, "search") \/ Get(queryString, "search") = Str("")
             THEN query' = query
             ELSE /\ DOMAIN query'.conditions = DOMAIN query.conditions \cup {"$or"}
                  /\ \A k \in DOMAIN query.conditions : query'.conditions[k] = query.conditions[k]
                  /\ \A doc \in Users :
                        ConditionHolds(doc, "$or", query'.conditions["$or"])
                           <=> \E f \in Range(calls'["search"].arg) :
                                  /\ f \in DOMAIN doc
                                  /\ ContainsIgnoreCase(doc[f], Get(queryString, "search").str)]_vars

\* C10: whenever skip and limit are set on the handle, skip >= 0 and
\* limit >= 1.
C10_SkipLimitRange ==
    /\ query.skip # None => query.skip[1] >= 0
    /\ query.limit # None => query.limit[1] >= 1

====
